---- MODULE Spec2Model ----
(***************************************************************************)
(* Certificate normalisation and grouping engine of the certificate        *)
(* viewer: the Go service (services/certificates.go), its TypeScript port  *)
(* for the crt.sh source (workers/src/certificates.ts with the crt.sh      *)
(* search handler) and the CTSentry pipeline (processCTSentryResponse with *)
(* the CTSentry search handler, workers/src/index.ts).                     *)
(*                                                                         *)
(* One search request is modelled from the upstream fetch to the call of   *)
(* the renderer.  Strings that the code takes apart or compares (issuer    *)
(* names, display names) are sequences of one-character strings; date      *)
(* strings are records [fmt, day, tod] naming their textual format and the *)
(* instant they denote, and every parser is a partial map on the formats.  *)
(***************************************************************************)
EXTENDS Integers, Sequences, FiniteSets, TLC

(***************************************************************************)
(* Bounds of the model.                                                    *)
(***************************************************************************)
\* longest upstream record list of one request
MaxCerts == 3
\* largest number of fingerprints in one CTSentry response
\* the requests one Worker serves at once
MaxRequests == 2
\* the most components an issuer string has
MaxParts == 3
MaxQids == 2

(***************************************************************************)
(* Generic helpers.                                                        *)
(***************************************************************************)
Range(s) == {s[i] : i \in 1..Len(s)}

\* all sequences over S of length 0..n
SeqsUpTo(S, n) == UNION {[1..k -> S] : k \in 0..n}

\* the permutations of 1..n, as functions
Perms(n) == {p \in [1..n -> 1..n] : \A i, j \in 1..n : p[i] = p[j] => i = j}

\* the sequence s read through the permutation p
Permute(s, p) == [i \in 1..Len(s) |-> s[p[i]]]

RECURSIVE SumSeq(_)
SumSeq(s) == IF s = <<>> THEN 0 ELSE Head(s) + SumSeq(Tail(s))

\* position of the first element of s equal to x (0 when there is none)
RECURSIVE IndexFrom(_, _, _)
IndexFrom(s, x, i) ==
  IF i > Len(s) THEN 0 ELSE IF s[i] = x THEN i ELSE IndexFrom(s, x, i + 1)
IndexOf(s, x) == IndexFrom(s, x, 1)

(***************************************************************************)
(* Character strings.                                                      *)
(***************************************************************************)
\* the characters in use, in ASCII (byte) order
AsciiOrder ==
  << " ", "'", "(", ")", ",", "=",
     "B", "C", "D", "E", "I", "N", "O", "R", "S", "U",
     "a", "e", "k", "n", "o", "r", "s", "u", "w", "x" >>

ByteRank(c) == IndexOf(AsciiOrder, c)

\* primary collation weight of a character (locale order: white space,
\* punctuation, symbols, then the letters alphabetically whatever their case)
CollationOrder ==
  << <<" ">>, <<",">>, <<"'">>, <<"(">>, <<")">>, <<"=">>,
     <<"a">>, <<"B">>, <<"C">>, <<"D">>, <<"e", "E">>, <<"I">>, <<"k">>,
     <<"n", "N">>, <<"o", "O">>, <<"r", "R">>, <<"s", "S">>, <<"u", "U">>,
     <<"w">>, <<"x">> >>

RECURSIVE PrimaryFrom(_, _)
PrimaryFrom(c, i) ==
  IF c \in Range(CollationOrder[i]) THEN i ELSE PrimaryFrom(c, i + 1)
PrimaryWeight(c) == PrimaryFrom(c, 1)

\* tertiary (case) weight: lower case before upper case
TertiaryWeight(c) == IndexOf(CollationOrder[PrimaryWeight(c)], c)

\* three-way lexicographic comparison of two sequences of numbers
RECURSIVE LexCompare(_, _)
LexCompare(a, b) ==
  IF a = <<>> /\ b = <<>> THEN 0
  ELSE IF a = <<>> THEN -1
  ELSE IF b = <<>> THEN 1
  ELSE IF Head(a) < Head(b) THEN -1
  ELSE IF Head(a) > Head(b) THEN 1
  ELSE LexCompare(Tail(a), Tail(b))

\* Go's string comparison: byte-wise
GoStringLess(a, b) ==
  LexCompare([i \in 1..Len(a) |-> ByteRank(a[i])],
             [i \in 1..Len(b) |-> ByteRank(b[i])]) < 0

\* String.prototype.localeCompare: primary weights first, case as tie-break
localeCompare(a, b) ==
  LET p == LexCompare([i \in 1..Len(a) |-> PrimaryWeight(a[i])],
                      [i \in 1..Len(b) |-> PrimaryWeight(b[i])])
  IN IF p # 0 THEN p
     ELSE LexCompare([i \in 1..Len(a) |-> TertiaryWeight(a[i])],
                     [i \in 1..Len(b) |-> TertiaryWeight(b[i])])

HasPrefix(s, p) == Len(s) >= Len(p) /\ SubSeq(s, 1, Len(p)) = p

TrimPrefix(s, p) == IF HasPrefix(s, p) THEN SubSeq(s, Len(p) + 1, Len(s)) ELSE s

RECURSIVE TrimLeft(_)
TrimLeft(s) == IF s # <<>> /\ Head(s) = " " THEN TrimLeft(Tail(s)) ELSE s

RECURSIVE TrimRight(_)
TrimRight(s) ==
  IF s # <<>> /\ s[Len(s)] = " " THEN TrimRight(SubSeq(s, 1, Len(s) - 1)) ELSE s

\* strings.TrimSpace / String.prototype.trim
TrimSpace(s) == TrimRight(TrimLeft(s))

\* strings.Split / String.prototype.split with a non-empty separator
RECURSIVE SplitFrom(_, _, _)
SplitFrom(s, sep, cur) ==
  IF s = <<>> THEN <<cur>>
  ELSE IF HasPrefix(s, sep)
       THEN <<cur>> \o SplitFrom(SubSeq(s, Len(sep) + 1, Len(s)), sep, <<>>)
       ELSE SplitFrom(Tail(s), sep, Append(cur, Head(s)))
Split(s, sep) == SplitFrom(s, sep, <<>>)

(***************************************************************************)
(* Numbers and dates.                                                      *)
(***************************************************************************)
\* a JavaScript number: an integer or NaN
Num(v) == [nan |-> FALSE, v |-> v]
NaN == [nan |-> TRUE, v |-> 0]

\* a - b on JavaScript numbers
JsSub(a, b) == IF a.nan \/ b.nan THEN NaN ELSE Num(a.v - b.v)

\* a >= b on JavaScript numbers (false as soon as one side is NaN)
JsGe(a, b) == ~a.nan /\ ~b.nan /\ a.v >= b.v

\* a date string: its textual format and, for the date formats, the calendar
\* day and the time of day (0 = 00:00:00, 1 = later that day) it spells
\*   "datetime" YYYY-MM-DDTHH:MM:SS    "date" YYYY-MM-DD
\*   "zulu"     YYYY-MM-DDTHH:MM:SSZ   "text" other text    "empty" ""
DateTime(d, t) == [fmt |-> "datetime", day |-> d, tod |-> t]
DateOnly(d) == [fmt |-> "date", day |-> d, tod |-> 0]
Zulu(d, t) == [fmt |-> "zulu", day |-> d, tod |-> t]
BadDate == [fmt |-> "text", day |-> 0, tod |-> 0]
EmptyString == [fmt |-> "empty", day |-> 0, tod |-> 0]

\* the instant (UTC) a well-formed date string denotes; always > 0
Instant(s) == s.day * 2 + s.tod

\* time.Parse(layout, s): the string must spell exactly the layout
\* ("2006-01-02T15:04:05" or "2006-01-02"); on error the zero Time, which is
\* before every instant
GoZeroTime == Num(0 - 1)
timeParse(layout, s) ==
  IF s.fmt = layout THEN [err |-> FALSE, t |-> Num(Instant(s))]
  ELSE [err |-> TRUE, t |-> GoZeroTime]

\* new Date(s).getTime(): ISO dates and date-times parse (a date-time without
\* offset is local time, and the Workers runtime runs in UTC); anything else
\* is an Invalid Date, whose time value is NaN
NewDate(s) ==
  IF s.fmt \in {"datetime", "date", "zulu"} THEN Num(Instant(s)) ELSE NaN

(***************************************************************************)
(* Array.prototype.sort(comparefn) on an array s.  The comparator is given *)
(* as the table cmp[i][j] = comparefn(s[i], s[j]) over the positions of s, *)
(* and the sort works on the array of positions.  A NaN from comparefn     *)
(* counts as 0; the engine (V8) sorts an array shorter than 32 elements by *)
(* finding the initial run and inserting the rest by binary insertion.     *)
(***************************************************************************)
SortCompare(cmp, x, y) == IF cmp[x][y].nan THEN 0 ELSE cmp[x][y].v

RECURSIVE RunLength(_, _, _, _)
RunLength(cmp, a, desc, idx) ==
  IF idx > Len(a) THEN Len(a)
  ELSE LET order == SortCompare(cmp, a[idx], a[idx - 1])
       IN IF (desc /\ order >= 0) \/ (~desc /\ order < 0) THEN idx - 1
          ELSE RunLength(cmp, a, desc, idx + 1)

Reverse(a) == [i \in 1..Len(a) |-> a[Len(a) + 1 - i]]

\* the array with its initial run made ascending, and the run's length
CountAndMakeRun(cmp, a) ==
  LET desc == SortCompare(cmp, a[2], a[1]) < 0
      len == RunLength(cmp, a, desc, 3)
  IN [arr |-> IF desc THEN Reverse(SubSeq(a, 1, len)) \o SubSeq(a, len + 1, Len(a))
              ELSE a,
      len |-> len]

\* left and right count the elements before the insertion point
RECURSIVE BinarySearch(_, _, _, _, _)
BinarySearch(cmp, a, pivot, left, right) ==
  IF left >= right THEN left
  ELSE LET mid == left + ((right - left) \div 2)
       IN IF SortCompare(cmp, pivot, a[mid + 1]) < 0
          THEN BinarySearch(cmp, a, pivot, left, mid)
          ELSE BinarySearch(cmp, a, pivot, mid + 1, right)

RECURSIVE BinaryInsertionSort(_, _, _)
BinaryInsertionSort(cmp, a, start) ==
  IF start > Len(a) THEN a
  ELSE LET pivot == a[start]
           at == BinarySearch(cmp, a, pivot, 0, start - 1)
           moved == SubSeq(a, 1, at) \o <<pivot>> \o SubSeq(a, at + 1, start - 1)
                      \o SubSeq(a, start + 1, Len(a))
       IN BinaryInsertionSort(cmp, moved, start + 1)

ArraySort(s, cmp) ==
  IF Len(s) < 2 THEN s
  ELSE LET positions == [i \in 1..Len(s) |-> i]
           run == CountAndMakeRun(cmp, positions)
       IN Permute(s, BinaryInsertionSort(cmp, run.arr, run.len + 1))

(***************************************************************************)
(* sort.Slice(s, less), with less[i][j] = less(s[i], s[j]) over the        *)
(* positions of s: some permutation of s in which no element is less than  *)
(* an earlier one; the order of equal elements is not specified.           *)
(***************************************************************************)
SortSliceOutcomes(s, less) ==
  {Permute(s, p) : p \in {q \in Perms(Len(s)) :
      \A i, j \in 1..Len(s) : i < j => ~less[q[j]][q[i]]}}

(***************************************************************************)
(* The crt.sh source: flat records keyed by serial number.                 *)
(***************************************************************************)
\* a Certificate as decoded from the upstream JSON (entry_type not yet set)
Cert(id, serial, issuer, cn, nb, na) ==
  [id |-> id, serial_number |-> serial, issuer_name |-> issuer,
   common_name |-> cn, not_before |-> nb, not_after |-> na, entry_type |-> ""]

IssuerUS ==
  <<"C", "=", "U", "S", ",", " ", "O", "=", "B", ",", " ", "C", "N", "=", "R">>
IssuerDE ==
  <<"C", "=", "D", "E", ",", " ", "O", "=", "B", ",", " ", "C", "N", "=", "R">>
IssuerA == <<"O", "=", "a">>

\* the records an upstream response is made of: pre-certificate/leaf pairs,
\* equal sequence tokens, issuers whose display names collide or differ in
\* case, validity dates around the cutoff day 2, and dates that do not parse
Records ==
  { Cert(5, "S1", IssuerUS, "a.example", DateTime(2, 0), DateTime(3, 0)),
    Cert(9, "S1", IssuerUS, "a.example", DateTime(2, 0), DateTime(3, 0)),
    Cert(5, "S1", IssuerUS, "b.example", DateTime(1, 1), DateTime(4, 0)),
    Cert(7, "S2", IssuerUS, "b.example", DateTime(1, 1), DateTime(4, 0)),
    Cert(8, "S3", IssuerUS, "c.example", EmptyString, BadDate),
    Cert(6, "S2", IssuerUS, "c.example", DateTime(2, 1), DateTime(3, 0)),
    Cert(4, "S3", IssuerDE, "a.example", DateTime(3, 0), DateTime(3, 0)),
    Cert(3, "S2", IssuerA, "b.example", DateOnly(2), DateTime(2, 0)) }

\* the notBefore query parameter: absent, a date, or text that is no date
Cutoffs == {EmptyString, DateOnly(2), BadDate}

\* extractIssuerDisplayName: "C=US, O=Let's Encrypt, CN=R3" -> "Let's Encrypt (R3)"
RECURSIVE ScanParts(_, _, _)
ScanParts(parts, org, cn) ==
  IF parts = <<>> THEN [org |-> org, cn |-> cn]
  ELSE LET part == TrimSpace(Head(parts))
       IN IF HasPrefix(part, <<"O", "=">>)
          THEN ScanParts(Tail(parts), TrimPrefix(part, <<"O", "=">>), cn)
          ELSE IF HasPrefix(part, <<"C", "N", "=">>)
          THEN ScanParts(Tail(parts), org, TrimPrefix(part, <<"C", "N", "=">>))
          ELSE ScanParts(Tail(parts), org, cn)

\* the three-way formatting rule shared by both extractors
FormatDisplayName(org, cn, fallback) ==
  IF org # <<>> /\ cn # <<>> THEN org \o <<" ", "(">> \o cn \o <<")">>
  ELSE IF org # <<>> THEN org
  ELSE IF cn # <<>> THEN cn
  ELSE fallback

\* extractIssuerDisplayName testing the components as split, untrimmed
RECURSIVE ScanPartsUntrimmed(_, _, _)
ScanPartsUntrimmed(parts, org, cn) ==
  IF parts = <<>> THEN [org |-> org, cn |-> cn]
  ELSE LET part == Head(parts)
       IN IF HasPrefix(part, <<"O", "=">>)
          THEN ScanPartsUntrimmed(Tail(parts), TrimPrefix(part, <<"O", "=">>), cn)
          ELSE IF HasPrefix(part, <<"C", "N", "=">>)
          THEN ScanPartsUntrimmed(Tail(parts), org, TrimPrefix(part, <<"C", "N", "=">>))
          ELSE ScanPartsUntrimmed(Tail(parts), org, cn)

extractIssuerDisplayNameUntrimmed(issuerName) ==
  LET found == ScanPartsUntrimmed(Split(issuerName, <<",", " ">>), <<>>, <<>>)
  IN FormatDisplayName(found.org, found.cn, issuerName)

extractIssuerDisplayName(issuerName) ==
  LET found == ScanParts(Split(issuerName, <<",", " ">>), <<>>, <<>>)
  IN FormatDisplayName(found.org, found.cn, issuerName)

\* the labels of a member list whose first member is the earliest
LabelInOrder(entries) ==
  [i \in 1..Len(entries) |->
     [entries[i] EXCEPT !.entry_type =
        IF i = 1 THEN "Precertificate" ELSE "Leaf Certificate"]]

LabelSingle(entries) ==
  [i \in 1..Len(entries) |-> [entries[i] EXCEPT !.entry_type = "Leaf Certificate"]]

\* certificates.ts labelEntries: the member list after the call
CompareById(a, b) == JsSub(Num(a.id), Num(b.id))
\* labelEntries without its sort: labels in the order collected
labelEntriesUnsorted(entries) ==
  IF Len(entries) = 1 THEN LabelSingle(entries) ELSE LabelInOrder(entries)
labelEntries(entries) ==
  IF Len(entries) = 1 THEN LabelSingle(entries)
  ELSE LabelInOrder(ArraySort(entries,
         [i \in 1..Len(entries) |-> [j \in 1..Len(entries) |->
            CompareById(entries[i], entries[j])]]))

\* certificates.go labelEntries: the member lists the call can leave
LessById(a, b) == a.id < b.id
GoLabelEntries(entries) ==
  IF Len(entries) = 1 THEN {LabelSingle(entries)}
  ELSE {LabelInOrder(s) : s \in SortSliceOutcomes(entries,
          [i \in 1..Len(entries) |-> [j \in 1..Len(entries) |->
             LessById(entries[i], entries[j])]])}

\* the group a first record of a serial number starts
NewGroup(cert, notAfterTime) ==
  [serialNumber |-> cert.serial_number, commonName |-> cert.common_name,
   issuerName |-> cert.issuer_name, notBefore |-> cert.not_before,
   notAfter |-> cert.not_after, notAfterTime |-> notAfterTime,
   entries |-> <<cert>>]

\* the pass over the records: groupMap is the list of the groups in insertion
\* order; a record joins the group of its serial number or starts a new one
\* the parsed validity-end a new group stores: new Date(cert.not_after) in
\* certificates.ts, time.Parse("2006-01-02T15:04:05", cert.NotAfter) in Go
ParseNotAfter(lang, s) == IF lang = "go" THEN timeParse("datetime", s).t ELSE NewDate(s)

RECURSIVE CollectGroups(_, _, _)
CollectGroups(lang, certs, groupMap) ==
  IF certs = <<>> THEN groupMap
  ELSE LET cert == Head(certs)
           at == IndexOf([i \in 1..Len(groupMap) |-> groupMap[i].serialNumber],
                         cert.serial_number)
       IN IF at # 0
          THEN CollectGroups(lang, Tail(certs),
                 [groupMap EXCEPT ![at].entries = Append(@, cert)])
          ELSE CollectGroups(lang, Tail(certs),
                 Append(groupMap, NewGroup(cert, ParseNotAfter(lang, cert.not_after))))

\* groupCertificates whose lookup never finds the group: one group per record
groupCertificatesNeverJoins(certs) ==
  [i \in 1..Len(certs) |->
     [NewGroup(certs[i], NewDate(certs[i].not_after)) EXCEPT !.entries = labelEntries(@)]]

\* groupCertificates that forgets to push a record onto its existing group
groupCertificatesFirstOnly(certs) ==
  LET groupMap == CollectGroups("ts", certs, <<>>)
  IN [i \in 1..Len(groupMap) |->
        [groupMap[i] EXCEPT !.entries = labelEntries(<<Head(@)>>)]]

\* groupCertificates that takes the group's fields anew from each record it
\* appends, so that they end as those of the last member
groupCertificatesLastRepresentative(certs) ==
  LET groupMap == CollectGroups("ts", certs, <<>>)
  IN [i \in 1..Len(groupMap) |->
        LET last == groupMap[i].entries[Len(groupMap[i].entries)]
        IN [NewGroup(last, NewDate(last.not_after)) EXCEPT
              !.entries = labelEntries(groupMap[i].entries)]]

\* certificates.ts groupCertificates: a Map is iterated in insertion order
groupCertificates(certs) ==
  LET groupMap == CollectGroups("ts", certs, <<>>)
  IN [i \in 1..Len(groupMap) |->
        [groupMap[i] EXCEPT !.entries = labelEntries(@)]]

\* certificates.go GroupCertificates: the results the call can return; a Go
\* map is iterated in an order that changes from run to run
GroupCertificates(certs) ==
  LET groupMap == CollectGroups("go", certs, <<>>)
      n == Len(groupMap)
      labelled == UNION {GoLabelEntries(groupMap[i].entries) : i \in 1..n}
  IN UNION { { [i \in 1..n |-> [groupMap[order[i]] EXCEPT !.entries = pick[order[i]]]]
               : pick \in {f \in [1..n -> labelled] :
                            \A i \in 1..n : f[i] \in GoLabelEntries(groupMap[i].entries)} }
             : order \in Perms(n) }

\* the pass over the groups: issuerMap is the list of the issuer groups in
\* insertion order, keyed by the exact issuer name
RECURSIVE CollectIssuers(_, _)
CollectIssuers(groups, issuerMap) ==
  IF groups = <<>> THEN issuerMap
  ELSE LET group == Head(groups)
           at == IndexOf([i \in 1..Len(issuerMap) |-> issuerMap[i].issuerName],
                         group.issuerName)
       IN IF at # 0
          THEN CollectIssuers(Tail(groups),
                 [issuerMap EXCEPT ![at].certificates = Append(@, group)])
          ELSE CollectIssuers(Tail(groups),
                 Append(issuerMap,
                   [issuerName |-> group.issuerName,
                    displayName |-> extractIssuerDisplayName(group.issuerName),
                    certificates |-> <<group>>]))

\* groupByIssuer that forgets to push a group onto its existing issuer
groupByIssuerFirstOnly(groups) ==
  LET issuerMap == CollectIssuers(groups, <<>>)
  IN [i \in 1..Len(issuerMap) |->
        [issuerMap[i] EXCEPT !.certificates = <<Head(@)>>]]

\* certificates.ts groupByIssuer
CompareByNotAfter(a, b) == JsSub(b.notAfterTime, a.notAfterTime)
CompareByDisplayName(a, b) == Num(localeCompare(a.displayName, b.displayName))
groupByIssuer(groups) ==
  LET issuerMap == CollectIssuers(groups, <<>>)
      issuers == [i \in 1..Len(issuerMap) |->
                    [issuerMap[i] EXCEPT !.certificates =
                       ArraySort(@, [a \in 1..Len(@) |-> [b \in 1..Len(@) |->
                                       CompareByNotAfter(@[a], @[b])]])]]
  IN ArraySort(issuers, [a \in 1..Len(issuers) |-> [b \in 1..Len(issuers) |->
                           CompareByDisplayName(issuers[a], issuers[b])]])

\* certificates.go GroupByIssuer: the results the call can return
NotAfterTimeAfter(a, b) == a.notAfterTime.v > b.notAfterTime.v
DisplayNameLess(a, b) == GoStringLess(a.displayName, b.displayName)
GroupByIssuer(groups) ==
  LET issuerMap == CollectIssuers(groups, <<>>)
      n == Len(issuerMap)
      sorted(i) ==
        LET list == issuerMap[i].certificates
        IN SortSliceOutcomes(list, [a \in 1..Len(list) |-> [b \in 1..Len(list) |->
                                      NotAfterTimeAfter(list[a], list[b])]])
      byName(list) ==
        SortSliceOutcomes(list, [a \in 1..Len(list) |-> [b \in 1..Len(list) |->
                                   DisplayNameLess(list[a], list[b])]])
      lists == UNION {sorted(i) : i \in 1..n}
  IN UNION { UNION { byName([i \in 1..n |->
                          [issuerMap[order[i]] EXCEPT !.certificates = pick[order[i]]]])
                     : pick \in {f \in [1..n -> lists] : \A i \in 1..n : f[i] \in sorted(i)} }
             : order \in Perms(n) }

\* certificates.go FilterByNotBefore
FilterByNotBefore(certs, notBeforeDate) ==
  LET filterDate == timeParse("date", notBeforeDate)
      keep(cert) ==
        LET certDate == timeParse("datetime", cert.not_before)
        IN certDate.err \/ ~(certDate.t.v < filterDate.t.v)
  IN IF filterDate.err THEN certs ELSE SelectSeq(certs, keep)

\* filterByNotBefore with an exclusive boundary (> for >=)
filterByNotBeforeExclusive(certs, notBeforeDate) ==
  LET filterDate == NewDate(notBeforeDate)
      keep(cert) == JsGe(NewDate(cert.not_before), filterDate)
                      /\ NewDate(cert.not_before) # filterDate
  IN SelectSeq(certs, keep)

\* filterByNotBefore removing the rejected elements from the array while it
\* walks it: the element after a removed one is never examined
RECURSIVE SpliceFrom(_, _, _)
SpliceFrom(certs, i, filterDate) ==
  IF i > Len(certs) THEN certs
  ELSE IF JsGe(NewDate(certs[i].not_before), filterDate)
       THEN SpliceFrom(certs, i + 1, filterDate)
       ELSE SpliceFrom(SubSeq(certs, 1, i - 1) \o SubSeq(certs, i + 1, Len(certs)),
                       i + 1, filterDate)

filterByNotBeforeSplicing(certs, notBeforeDate) ==
  SpliceFrom(certs, 1, NewDate(notBeforeDate))

\* certificates.ts filterByNotBefore
filterByNotBefore(certs, notBeforeDate) ==
  LET filterDate == NewDate(notBeforeDate)
      keep(cert) == JsGe(NewDate(cert.not_before), filterDate)
  IN SelectSeq(certs, keep)

(***************************************************************************)
(* The CTSentry source: records pre-grouped by fingerprint (QID).          *)
(***************************************************************************)
\* an absent optional string and an empty one are both <<>> (the code tests
\* them with ||), an absent optional list is the empty list
DistinguishedName(dn, org, cn) ==
  [dn |-> dn, organization |-> org, common_name |-> cn]

CertDetails(issuer, subject, dns, nb, na) ==
  [issuer |-> issuer, subject_common_name |-> subject, dns_names |-> dns,
   not_before |-> nb, not_after |-> na]

\* a log entry; cert is <<>> when the entry carries no certificate details
Entry(precert, cert) == [is_precert |-> precert, cert |-> cert]

Unknown == <<"U", "n", "k", "n", "o", "w", "n">>
UnknownIssuer == Unknown \o <<" ", "I", "s", "s", "u", "e", "r">>

DetailsUS ==
  CertDetails(DistinguishedName(IssuerUS, << <<"B">> >>, <<"R">>),
              "a.example", <<"a.example">>, Zulu(2, 0), Zulu(3, 0))
DetailsOrgOnly ==
  CertDetails(DistinguishedName(<<>>, << <<"B">>, <<"x">> >>, <<>>),
              "", <<"b.example">>, Zulu(1, 1), Zulu(4, 0))
DetailsCnOnly ==
  CertDetails(DistinguishedName(<<>>, <<>>, <<"a">>),
              "", <<>>, EmptyString, BadDate)
DetailsNoEnd ==
  CertDetails(DistinguishedName(IssuerUS, << <<"B">> >>, <<"R">>),
              "c.example", <<>>, Zulu(3, 0), EmptyString)

\* the entry lists a fingerprint can map to
EntryLists ==
  { <<Entry(FALSE, <<DetailsUS>>), Entry(TRUE, <<DetailsUS>>)>>,
    <<Entry(FALSE, <<DetailsOrgOnly>>)>>,
    <<Entry(FALSE, <<DetailsCnOnly>>)>>,
    <<Entry(FALSE, <<DetailsNoEnd>>)>>,
    <<Entry(TRUE, <<>>), Entry(FALSE, <<DetailsUS>>)>>,
    <<>> }

Qids == {<<"Q", i>> : i \in 1..MaxQids}

\* response.results in the order Object.entries visits it: the insertion
\* order of the decoded JSON object (a QID is never an array index)
ResultLists ==
  {r \in SeqsUpTo([qid : Qids, entries : EntryLists], MaxQids) :
     \A i, j \in 1..Len(r) : r[i].qid = r[j].qid => i = j}

Responses == [truncated : BOOLEAN, results : ResultLists]

NoResponse == [truncated |-> FALSE, results |-> <<>>]

\* a || b on strings
OrElse(a, b) == IF a # <<>> THEN a ELSE b

\* extractCTSentryIssuerDisplayName returning the full DN whenever there is one
extractCTSentryIssuerDisplayNamePrefersDN(issuer) ==
  LET org == IF issuer.organization = <<>> THEN <<>> ELSE issuer.organization[1]
      cn == issuer.common_name
  IN IF issuer.dn # <<>> THEN issuer.dn ELSE FormatDisplayName(org, cn, UnknownIssuer)

extractCTSentryIssuerDisplayName(issuer) ==
  LET org == IF issuer.organization = <<>> THEN <<>> ELSE issuer.organization[1]
      cn == issuer.common_name
  IN FormatDisplayName(org, cn, OrElse(issuer.dn, UnknownIssuer))

\* new Date(cert.validity.not_after || 0)
NotAfterDate(na) == IF na.fmt = "empty" THEN Num(0) ELSE NewDate(na)

\* processCTSentryResponse step 1: one group per fingerprint whose first
\* entry has certificate details
RECURSIVE CertGroups(_)
CertGroups(results) ==
  IF results = <<>> THEN <<>>
  ELSE LET qid == Head(results).qid
           entries == Head(results).entries
           primaryCert == entries[1]
           cert == primaryCert.cert[1]
       IN IF primaryCert.cert = <<>> THEN CertGroups(Tail(results))
          ELSE << [qid |-> qid,
                   primaryCert |-> primaryCert,
                   allEntries |-> entries,
                   issuerDisplayName |-> extractCTSentryIssuerDisplayName(cert.issuer),
                   commonName |->
                     IF cert.subject_common_name # "" THEN cert.subject_common_name
                     ELSE IF cert.dns_names # <<>> /\ cert.dns_names[1] # ""
                          THEN cert.dns_names[1] ELSE "Unknown",
                   dnsNames |-> cert.dns_names,
                   notBefore |-> cert.not_before,
                   notAfter |-> cert.not_after,
                   notAfterDate |-> NotAfterDate(cert.not_after)] >>
               \o CertGroups(Tail(results))

\* step 2: issuerMap keyed by the issuer's full DN string, 'Unknown' without one
IssuerDNOf(certGroup) == OrElse(certGroup.primaryCert.cert[1].issuer.dn, Unknown)

RECURSIVE CollectCTSentryIssuers(_, _)
CollectCTSentryIssuers(certGroups, issuerMap) ==
  IF certGroups = <<>> THEN issuerMap
  ELSE LET certGroup == Head(certGroups)
           issuerDN == IssuerDNOf(certGroup)
           at == IndexOf([i \in 1..Len(issuerMap) |-> issuerMap[i].issuerDN], issuerDN)
       IN IF at # 0
          THEN CollectCTSentryIssuers(Tail(certGroups),
                 [issuerMap EXCEPT ![at].certificates = Append(@, certGroup)])
          ELSE CollectCTSentryIssuers(Tail(certGroups),
                 Append(issuerMap,
                   [issuerDN |-> issuerDN,
                    displayName |-> certGroup.issuerDisplayName,
                    certificates |-> <<certGroup>>]))

\* entries[0] of an empty entry list is undefined: reading its cert throws
ProcessThrows(response) ==
  \E i \in 1..Len(response.results) : response.results[i].entries = <<>>

\* step 3 and the result of processCTSentryResponse (when it does not throw)
CompareByNotAfterDate(a, b) == JsSub(b.notAfterDate, a.notAfterDate)
processCTSentryResponse(response) ==
  LET issuerMap == CollectCTSentryIssuers(CertGroups(response.results), <<>>)
      issuerGroups == [i \in 1..Len(issuerMap) |->
                         [issuerMap[i] EXCEPT !.certificates =
                            ArraySort(@, [a \in 1..Len(@) |-> [b \in 1..Len(@) |->
                                            CompareByNotAfterDate(@[a], @[b])]])]]
  IN ArraySort(issuerGroups,
       [a \in 1..Len(issuerGroups) |-> [b \in 1..Len(issuerGroups) |->
          CompareByDisplayName(issuerGroups[a], issuerGroups[b])]])

\* index.ts handleSearch, the date filter on one issuer's certificate list
\* a filter that hands back the retained certificate groups last first
FilterCertificatesReversed(certificates, notBeforeParam) ==
  LET filterDate == NewDate(notBeforeParam)
      keep(cert) == JsGe(NewDate(cert.notBefore), filterDate)
  IN Reverse(SelectSeq(certificates, keep))

FilterCertificates(certificates, notBeforeParam) ==
  LET filterDate == NewDate(notBeforeParam)
      keep(cert) == JsGe(NewDate(cert.notBefore), filterDate)
  IN SelectSeq(certificates, keep)

\* index.ts handleSearch, the loop over the issuers: each issuer object's
\* certificates is assigned its filtered list, in place
FilterEachIssuer(issuerGroups, notBeforeParam) ==
  [i \in 1..Len(issuerGroups) |->
     [issuerGroups[i] EXCEPT !.certificates = FilterCertificates(@, notBeforeParam)]]

\* the issuers handed on without removing the emptied ones
KeepEveryIssuer(issuerGroups) == issuerGroups

\* issuers.filter(issuer => issuer.certificates.length > 0)
RemoveEmptyIssuers(issuerGroups) ==
  LET nonEmpty(issuer) == Len(issuer.certificates) > 0
  IN SelectSeq(issuerGroups, nonEmpty)

\* the number of issuers in place of the number of certificates
CountIssuers(issuerGroups) == Len(issuerGroups)

\* issuers.reduce((sum, issuer) => sum + issuer.certificates.length, 0)
TotalCerts(issuerGroups) ==
  SumSeq([i \in 1..Len(issuerGroups) |-> Len(issuerGroups[i].certificates)])

(***************************************************************************)
(* One search request.                                                     *)
(*   impl       the code that serves it: "main" (main.go searchHandler),   *)
(*              "go" (services/certificates.go, its functions applied in   *)
(*              pipeline order), "crtsh" (the crt.sh handleSearch) or      *)
(*              "ctsentry" (index.ts handleSearch)                         *)
(*   domain     the domain query parameter, trimmed                        *)
(*   notBefore  the notBefore query parameter                              *)
(*   pc         where the request is                                       *)
(*   steps      the calls the request has made so far, in order            *)
(*   upstream   the record list the crt.sh fetch returned                  *)
(*   response   the response the CTSentry fetch returned                   *)
(*   certs      the handler's certs variable                               *)
(*   groups     the result of the group builder                            *)
(*   returned   the IssuerGroup objects processCTSentryResponse returned   *)
(*   issuers    the handler's issuers variable                             *)
(*   rendered   the arguments of the renderer call, <<>> before it         *)
(***************************************************************************)
VARIABLES impl, domain, notBefore, pc, steps, upstream, response, certs, groups,
          returned, issuers, rendered

requestVars == <<impl, domain, notBefore, pc, steps, upstream, response, certs,
                 groups, returned, issuers, rendered>>

(***************************************************************************)
(* A Worker or server process serving several requests at once.            *)
(*   server     the code that runs: "none", "main" or "ctsentry"           *)
(*   requests   the requests in progress, each with its own locals         *)
(*   heap       the IssuerGroup objects created so far; a request holds    *)
(*              references (positions in heap) to the objects it was given *)
(***************************************************************************)
VARIABLES server, requests, heap

serverVars == <<server, requests, heap>>

(***************************************************************************)
(* One call of a display-name extractor.                                   *)
(*   called     the function called, "none" before the call                *)
(*   argument   the issuer passed                                          *)
(*   result     the string returned                                        *)
(***************************************************************************)
VARIABLES called, argument, result

callVars == <<called, argument, result>>

vars == <<requestVars, serverVars, callVars>>

Impls == {"main", "go", "crtsh", "ctsentry"}

Domains == {"", "example.com"}

NoServer == server = "none" /\ requests = <<>> /\ heap = <<>>

NoCall == called = "none" /\ argument = <<>> /\ result = <<>>

Init ==
  /\ impl \in Impls
  /\ domain \in Domains
  /\ impl = "go" => domain # ""
  /\ notBefore \in Cutoffs
  /\ pc = "start"
  /\ steps = <<>>
  /\ upstream = <<>>
  /\ response = NoResponse
  /\ certs = <<>>
  /\ groups = <<>>
  /\ returned = <<>>
  /\ issuers = <<>>
  /\ rendered = <<>>
  /\ NoServer
  /\ NoCall

\* a renderer call that drops the truncation flag
PageWithoutTruncation(issuerGroups, totalCerts, truncated, errors) ==
  [issuers |-> issuerGroups, totalCerts |-> totalCerts, truncated |-> FALSE,
   errors |-> errors]

\* what the handlers pass their renderer: renderResults and
\* renderCTSentryResults take the issuers, the total, the truncation flag (the
\* crt.sh renderer has none) and the error message, if any
Page(issuerGroups, totalCerts, truncated, errors) ==
  [issuers |-> issuerGroups, totalCerts |-> totalCerts, truncated |-> truncated,
   errors |-> errors]

\* main.go searchHandler passes its template SearchData
SearchData(certificates, errors) == [certificates |-> certificates, errors |-> errors]

\* both handlers: an empty domain is answered without a fetch
RejectEmptyDomain ==
  /\ pc = "start"
  /\ domain = ""
  /\ rendered' = IF impl = "main"
                 THEN <<SearchData(<<>>, <<"Please enter a domain name">>)>>
                 ELSE <<Page(<<>>, 0, FALSE, <<"Please enter a domain name">>)>>
  /\ steps' = Append(steps, "render")
  /\ pc' = "done"
  /\ UNCHANGED <<impl, domain, notBefore, upstream, response, certs, groups,
                 returned, issuers>>
  /\ UNCHANGED <<serverVars, callVars>>

\* fetchCertificates / FetchCertificates returns the decoded record list
FetchCertificates ==
  /\ pc = "start"
  /\ domain # ""
  /\ impl \in {"main", "go", "crtsh"}
  /\ \E list \in SeqsUpTo(Records, MaxCerts) :
       /\ upstream' = list
       /\ certs' = list
  /\ steps' = Append(steps, "fetch")
  /\ pc' = "fetched"
  /\ UNCHANGED <<impl, domain, notBefore, response, groups, returned, issuers, rendered>>
  /\ UNCHANGED <<serverVars, callVars>>

\* fetchFromCTSentry returns the decoded response
fetchFromCTSentry ==
  /\ pc = "start"
  /\ domain # ""
  /\ impl = "ctsentry"
  /\ response' \in Responses
  /\ steps' = Append(steps, "fetch")
  /\ pc' = "fetched"
  /\ UNCHANGED <<impl, domain, notBefore, upstream, certs, groups, returned, issuers,
                 rendered>>
  /\ UNCHANGED <<serverVars, callVars>>

\* the fetch fails: network error, non-success status or undecodable body
FetchFails ==
  /\ pc = "start"
  /\ domain # ""
  /\ steps' = Append(steps, "fetch")
  /\ pc' = "failed"
  /\ UNCHANGED <<impl, domain, notBefore, upstream, response, certs, groups, returned,
                 issuers, rendered>>
  /\ UNCHANGED <<serverVars, callVars>>

\* main.go searchHandler: data.Certificates = certs, then the template
MainRender ==
  /\ pc = "fetched"
  /\ impl = "main"
  /\ rendered' = <<SearchData(certs, <<>>)>>
  /\ steps' = Append(steps, "render")
  /\ pc' = "done"
  /\ UNCHANGED <<impl, domain, notBefore, upstream, response, certs, groups, returned,
                 issuers>>
  /\ UNCHANGED <<serverVars, callVars>>

\* main.go searchHandler: data.Error = err.Error(), then the template
MainRenderError ==
  /\ pc = "failed"
  /\ impl = "main"
  /\ rendered' = <<SearchData(<<>>, <<"fetch failed">>)>>
  /\ steps' = Append(steps, "render")
  /\ pc' = "done"
  /\ UNCHANGED <<impl, domain, notBefore, upstream, response, certs, groups, returned,
                 issuers>>
  /\ UNCHANGED <<serverVars, callVars>>

\* Go: FilterByNotBefore on the fetched records
GoFilter ==
  /\ pc = "fetched"
  /\ impl = "go"
  /\ certs' = FilterByNotBefore(certs, notBefore)
  /\ steps' = Append(steps, "filter")
  /\ pc' = "filtered"
  /\ UNCHANGED <<impl, domain, notBefore, upstream, response, groups, returned, issuers,
                 rendered>>
  /\ UNCHANGED <<serverVars, callVars>>

\* Go: GroupCertificates
GoGroup ==
  /\ pc = "filtered"
  /\ impl = "go"
  /\ groups' \in GroupCertificates(certs)
  /\ steps' = Append(steps, "group")
  /\ pc' = "grouped"
  /\ UNCHANGED <<impl, domain, notBefore, upstream, response, certs, returned, issuers,
                 rendered>>
  /\ UNCHANGED <<serverVars, callVars>>

\* Go: GroupByIssuer
GoAggregate ==
  /\ pc = "grouped"
  /\ impl = "go"
  /\ issuers' \in GroupByIssuer(groups)
  /\ steps' = Append(steps, "aggregate")
  /\ pc' = "done"
  /\ UNCHANGED <<impl, domain, notBefore, upstream, response, certs, groups, returned,
                 rendered>>
  /\ UNCHANGED <<serverVars, callVars>>

\* crt.sh handleSearch: if (notBefore) certs = filterByNotBefore(certs, notBefore)
CrtshFilter ==
  /\ pc = "fetched"
  /\ impl = "crtsh"
  /\ notBefore # EmptyString
  /\ certs' = filterByNotBefore(certs, notBefore)
  /\ steps' = Append(steps, "filter")
  /\ pc' = "filtered"
  /\ UNCHANGED <<impl, domain, notBefore, upstream, response, groups, returned, issuers,
                 rendered>>
  /\ UNCHANGED <<serverVars, callVars>>

\* crt.sh handleSearch: groups = groupCertificates(certs)
CrtshGroup ==
  /\ impl = "crtsh"
  /\ \/ pc = "filtered"
     \/ pc = "fetched" /\ notBefore = EmptyString
  /\ groups' = groupCertificates(certs)
  /\ steps' = Append(steps, "group")
  /\ pc' = "grouped"
  /\ UNCHANGED <<impl, domain, notBefore, upstream, response, certs, returned, issuers,
                 rendered>>
  /\ UNCHANGED <<serverVars, callVars>>

\* crt.sh handleSearch: issuers = groupByIssuer(groups)
CrtshAggregate ==
  /\ pc = "grouped"
  /\ impl = "crtsh"
  /\ issuers' = groupByIssuer(groups)
  /\ steps' = Append(steps, "aggregate")
  /\ pc' = "aggregated"
  /\ UNCHANGED <<impl, domain, notBefore, upstream, response, certs, groups, returned,
                 rendered>>
  /\ UNCHANGED <<serverVars, callVars>>

\* crt.sh handleSearch: renderResults(domain, issuers, groups.length)
CrtshRender ==
  /\ pc = "aggregated"
  /\ impl = "crtsh"
  /\ rendered' = <<Page(issuers, Len(groups), FALSE, <<>>)>>
  /\ steps' = Append(steps, "render")
  /\ pc' = "done"
  /\ UNCHANGED <<impl, domain, notBefore, upstream, response, certs, groups, returned,
                 issuers>>
  /\ UNCHANGED <<serverVars, callVars>>

\* index.ts handleSearch: issuers = processCTSentryResponse(response); an
\* exception leaves for the catch block
CtsProcess ==
  /\ pc = "fetched"
  /\ impl = "ctsentry"
  /\ IF ProcessThrows(response)
     THEN /\ pc' = "threw"
          /\ UNCHANGED <<returned, issuers>>
     ELSE /\ returned' = processCTSentryResponse(response)
          /\ issuers' = returned'
          /\ pc' = "aggregated"
  /\ steps' = Append(steps, "process")
  /\ UNCHANGED <<impl, domain, notBefore, upstream, response, certs, groups, rendered>>
  /\ UNCHANGED <<serverVars, callVars>>

\* index.ts handleSearch: the date filter assigns each issuer object's
\* certificates in place, then issuers becomes the array of the non-empty ones
CtsFilter ==
  /\ pc = "aggregated"
  /\ impl = "ctsentry"
  /\ notBefore # EmptyString
  /\ returned' = FilterEachIssuer(returned, notBefore)
  /\ issuers' = RemoveEmptyIssuers(returned')
  /\ steps' = Append(steps, "filter")
  /\ pc' = "filtered"
  /\ UNCHANGED <<impl, domain, notBefore, upstream, response, certs, groups, rendered>>
  /\ UNCHANGED <<serverVars, callVars>>

\* index.ts handleSearch: renderCTSentryResults(domain, issuers, totalCerts,
\* response.truncated)
CtsRender ==
  /\ impl = "ctsentry"
  /\ \/ pc = "filtered"
     \/ pc = "aggregated" /\ notBefore = EmptyString
  /\ rendered' = <<Page(issuers, TotalCerts(issuers), response.truncated, <<>>)>>
  /\ steps' = Append(steps, "render")
  /\ pc' = "done"
  /\ UNCHANGED <<impl, domain, notBefore, upstream, response, certs, groups, returned,
                 issuers>>
  /\ UNCHANGED <<serverVars, callVars>>

\* a catch block that lets the error go: the handler ends without a response
RethrowError ==
  /\ \/ pc = "failed"
     \/ pc = "threw"
  /\ impl \in {"crtsh", "ctsentry"}
  /\ steps' = Append(steps, "rethrow")
  /\ pc' = "done"
  /\ UNCHANGED <<impl, domain, notBefore, upstream, response, certs, groups, returned,
                 issuers, rendered>>
  /\ UNCHANGED <<serverVars, callVars>>

\* a catch block that swallows the error and renders an empty result
RenderErrorAsEmptyResult ==
  /\ \/ pc = "failed"
     \/ pc = "threw"
  /\ impl \in {"crtsh", "ctsentry"}
  /\ rendered' = <<Page(<<>>, 0, FALSE, <<>>)>>
  /\ steps' = Append(steps, "render")
  /\ pc' = "done"
  /\ UNCHANGED <<impl, domain, notBefore, upstream, response, certs, groups, returned,
                 issuers>>
  /\ UNCHANGED <<serverVars, callVars>>

\* the catch block of both handlers: render no groups and the error message
RenderError ==
  /\ \/ pc = "failed"
     \/ pc = "threw"
  /\ impl \in {"crtsh", "ctsentry"}
  /\ rendered' = <<Page(<<>>, 0, FALSE,
                        <<IF pc = "failed" THEN "fetch failed" ELSE "exception">>)>>
  /\ steps' = Append(steps, "render")
  /\ pc' = "done"
  /\ UNCHANGED <<impl, domain, notBefore, upstream, response, certs, groups, returned,
                 issuers>>
  /\ UNCHANGED <<serverVars, callVars>>

\* index.ts handleSearch from the fetched response on, as one function: the
\* renderer call it ends with
handleSearch(fetched, notBeforeParam) ==
  IF ProcessThrows(fetched) THEN Page(<<>>, 0, FALSE, <<"exception">>)
  ELSE LET processed == processCTSentryResponse(fetched)
           kept == IF notBeforeParam # EmptyString
                   THEN RemoveEmptyIssuers(FilterEachIssuer(processed, notBeforeParam))
                   ELSE processed
       IN Page(kept, TotalCerts(kept), fetched.truncated, <<>>)

(***************************************************************************)
(* The display-name extractors, each called on its own.                    *)
(***************************************************************************)
\* the components an issuer string is made of
Components ==
  { <<"O", "=", "B">>, <<"C", "N", "=", "R">>, <<"O", "=">>, <<"C", "N", "=">>,
    <<"C", "=", "U", "S">>, <<"O", "U", "=", "z">>, <<" ", "O", "=", "x">>,
    <<"O", "=", "y">> }

RECURSIVE Join(_, _)
Join(parts, sep) ==
  IF parts = <<>> THEN <<>>
  ELSE IF Len(parts) = 1 THEN parts[1]
  ELSE parts[1] \o sep \o Join(Tail(parts), sep)

\* the string-encoded issuers: up to MaxParts components joined by ", "
IssuerNames == {Join(parts, <<",", " ">>) : parts \in SeqsUpTo(Components, MaxParts)}

\* the structured issuers: each optional field absent or present; an
\* organization list may be empty, start with an empty name or hold several
IssuerRecords ==
  { DistinguishedName(dn, org, cn) :
      dn \in {<<>>, IssuerUS},
      org \in { <<>>, << <<"B">> >>, << <<"B">>, <<"x">> >>, << <<>> >>,
                << <<>>, <<"x">> >> },
      cn \in {<<>>, <<"R">>} }

NoIssuerRecord == DistinguishedName(<<>>, <<>>, <<>>)

Arguments ==
  {[form |-> "string", name |-> n, record |-> NoIssuerRecord] : n \in IssuerNames}
    \cup {[form |-> "structured", name |-> <<>>, record |-> r] : r \in IssuerRecords}

NoRequest ==
  /\ impl = "none"
  /\ domain = ""
  /\ notBefore = EmptyString
  /\ pc = "idle"
  /\ steps = <<>>
  /\ upstream = <<>>
  /\ response = NoResponse
  /\ certs = <<>>
  /\ groups = <<>>
  /\ returned = <<>>
  /\ issuers = <<>>
  /\ rendered = <<>>

InitCall ==
  /\ called = "none"
  /\ argument \in Arguments
  /\ result = <<>>
  /\ NoRequest
  /\ NoServer

CallExtractIssuerDisplayName ==
  /\ called = "none"
  /\ argument.form = "string"
  /\ called' = "extractIssuerDisplayName"
  /\ result' = extractIssuerDisplayName(argument.name)
  /\ UNCHANGED <<argument, requestVars, serverVars>>

CallExtractCTSentryIssuerDisplayName ==
  /\ called = "none"
  /\ argument.form = "structured"
  /\ called' = "extractCTSentryIssuerDisplayName"
  /\ result' = extractCTSentryIssuerDisplayName(argument.record)
  /\ UNCHANGED <<argument, requestVars, serverVars>>

NextCall ==
  \/ CallExtractIssuerDisplayName
  \/ CallExtractCTSentryIssuerDisplayName

SpecDisplayName == InitCall /\ [][NextCall]_vars

(***************************************************************************)
(* Several requests served at once by one Worker (index.ts) or one server  *)
(* (main.go).  A request is suspended only while its fetch is in flight;   *)
(* what a handler does after its fetch is one step.                        *)
(***************************************************************************)
\* the responses the upstream gives the requests
SharedResponses ==
  { [truncated |-> FALSE,
     results |-> <<[qid |-> <<"Q", 1>>,
                    entries |-> <<Entry(FALSE, <<DetailsUS>>), Entry(TRUE, <<DetailsUS>>)>>]>>],
    [truncated |-> TRUE,
     results |-> <<[qid |-> <<"Q", 1>>, entries |-> <<Entry(FALSE, <<DetailsUS>>)>>],
                   [qid |-> <<"Q", 2>>, entries |-> <<Entry(FALSE, <<DetailsOrgOnly>>)>>]>>],
    [truncated |-> FALSE,
     results |-> <<[qid |-> <<"Q", 2>>, entries |-> <<Entry(FALSE, <<DetailsNoEnd>>)>>],
                   [qid |-> <<"Q", 1>>, entries |-> <<Entry(FALSE, <<DetailsCnOnly>>)>>]>>],
    [truncated |-> TRUE,
     results |-> <<[qid |-> <<"Q", 1>>, entries |-> <<>>]>>] }

\* the record lists the upstream gives the requests
SharedLists == {<<>>} \cup {<<c>> : c \in {x \in Records : x.id = 5}}

\* the cutoffs of the requests
SharedCutoffs == {EmptyString, DateOnly(2)}

\* the locals of a request that has just arrived
NewRequest(domainParam, notBeforeParam) ==
  [domain |-> domainParam, notBefore |-> notBeforeParam, pc |-> "start",
   fetches |-> 0, outcome |-> "none", certs |-> <<>>, response |-> NoResponse,
   issuers |-> <<>>, rendered |-> <<>>]

InitServer ==
  /\ server \in {"main", "ctsentry"}
  /\ requests \in [1..MaxRequests ->
                     {NewRequest(d, nb) : d \in Domains, nb \in SharedCutoffs}]
  /\ heap = <<>>
  /\ NoRequest
  /\ NoCall

\* the page of a handler that caught an error
ErrorPage(message) ==
  IF server = "main" THEN SearchData(<<>>, <<message>>)
  ELSE Page(<<>>, 0, FALSE, <<message>>)

\* a handler that calls the fetch again when it fails
RetryOnFetchError(request) == [request EXCEPT !.pc = "start"]

\* the catch block (index.ts), the err != nil branch (main.go): render the
\* message and answer
OnFetchError(request) ==
  [request EXCEPT !.pc = "done", !.outcome = "failed",
                  !.rendered = <<ErrorPage("fetch failed")>>]

\* the objects looked up by issuer DN among those of earlier calls, and created
\* only when there is none
AllocateInterned(objects, store) ==
  LET at(o) == IndexOf([i \in 1..Len(store) |-> store[i].issuerDN], o.issuerDN)
      fresh == SelectSeq(objects, LAMBDA o : at(o) = 0)
  IN [heap |-> store \o fresh,
      refs |-> [i \in 1..Len(objects) |->
                  IF at(objects[i]) # 0 THEN at(objects[i])
                  ELSE Len(store) + IndexOf(fresh, objects[i])]]

\* processCTSentryResponse builds its IssuerGroups in a Map of its own: every
\* object it returns is newly created
Allocate(objects, store) ==
  [heap |-> store \o objects,
   refs |-> [i \in 1..Len(objects) |-> Len(store) + i]]

\* the handler answers a request without a domain
ReceiveWithoutDomain(r) ==
  /\ requests[r].pc = "start"
  /\ requests[r].domain = ""
  /\ requests' = [requests EXCEPT ![r].pc = "done",
                    ![r].rendered = <<ErrorPage("Please enter a domain name")>>]
  /\ UNCHANGED <<server, heap, requestVars, callVars>>

\* the handler calls the fetch and is suspended
CallFetch(r) ==
  /\ requests[r].pc = "start"
  /\ requests[r].domain # ""
  /\ requests' = [requests EXCEPT ![r].pc = "waiting", ![r].fetches = @ + 1]
  /\ UNCHANGED <<server, heap, requestVars, callVars>>

\* the fetch fails
FetchRejects(r) ==
  /\ requests[r].pc = "waiting"
  /\ requests' = [requests EXCEPT ![r] = OnFetchError(@)]
  /\ UNCHANGED <<server, heap, requestVars, callVars>>

\* main.go searchHandler resumes with the record list
MainResumes(r) ==
  /\ server = "main"
  /\ requests[r].pc = "waiting"
  /\ \E list \in SharedLists :
       requests' = [requests EXCEPT ![r].pc = "done", ![r].outcome = "fetched",
                      ![r].certs = list, ![r].rendered = <<SearchData(list, <<>>)>>]
  /\ UNCHANGED <<server, heap, requestVars, callVars>>

\* index.ts handleSearch resumes with the response: processCTSentryResponse,
\* the date filter on the objects it returned, the total and the renderer call
WorkerResumes(r) ==
  /\ server = "ctsentry"
  /\ requests[r].pc = "waiting"
  /\ \E fetched \in SharedResponses :
       IF ProcessThrows(fetched)
       THEN /\ requests' = [requests EXCEPT ![r].pc = "done", ![r].outcome = "fetched",
                              ![r].response = fetched,
                              ![r].rendered = <<ErrorPage("exception")>>]
            /\ heap' = heap
       ELSE LET made == Allocate(processCTSentryResponse(fetched), heap)
                cutoff == requests[r].notBefore
                filtered ==
                  IF cutoff = EmptyString THEN made.heap
                  ELSE [i \in 1..Len(made.heap) |->
                          IF i \in Range(made.refs)
                          THEN [made.heap[i] EXCEPT !.certificates =
                                  FilterCertificates(@, cutoff)]
                          ELSE made.heap[i]]
                kept == IF cutoff = EmptyString THEN made.refs
                        ELSE SelectSeq(made.refs,
                               LAMBDA ref : Len(filtered[ref].certificates) > 0)
                shown == [i \in 1..Len(kept) |-> filtered[kept[i]]]
            IN /\ heap' = filtered
               /\ requests' = [requests EXCEPT ![r].pc = "done",
                                 ![r].outcome = "fetched", ![r].response = fetched,
                                 ![r].issuers = kept,
                                 ![r].rendered = <<Page(shown, TotalCerts(shown),
                                                        fetched.truncated, <<>>)>>]
  /\ UNCHANGED <<server, requestVars, callVars>>

NextServer ==
  \E r \in 1..MaxRequests :
    \/ ReceiveWithoutDomain(r)
    \/ CallFetch(r)
    \/ FetchRejects(r)
    \/ MainResumes(r)
    \/ WorkerResumes(r)

SpecServer == InitServer /\ [][NextServer]_vars

Next ==
  \/ RejectEmptyDomain
  \/ FetchCertificates
  \/ fetchFromCTSentry
  \/ FetchFails
  \/ MainRender
  \/ MainRenderError
  \/ GoFilter
  \/ GoGroup
  \/ GoAggregate
  \/ CrtshFilter
  \/ CrtshGroup
  \/ CrtshAggregate
  \/ CrtshRender
  \/ CtsProcess
  \/ CtsFilter
  \/ CtsRender
  \/ RenderError

Spec == Init /\ [][Next]_vars

(***************************************************************************)
(* The request handlers alone (searchHandler and the two handleSearch), with *)
(* their scheduling: the fetch is awaited, everything else in a handler is   *)
(* straight-line code and loops over finite arrays, which runs to the        *)
(* return statement once it is entered.                                      *)
(***************************************************************************)
Handlers == {"main", "crtsh", "ctsentry"}

InitHandler ==
  /\ Init
  /\ impl \in Handlers

\* the steps of a handler that are not the fetch
HandlerStep ==
  \/ RejectEmptyDomain
  \/ MainRender
  \/ MainRenderError
  \/ CrtshFilter
  \/ CrtshGroup
  \/ CrtshAggregate
  \/ CrtshRender
  \/ CtsProcess
  \/ CtsFilter
  \/ CtsRender
  \/ RenderError

NextHandler ==
  \/ FetchCertificates
  \/ fetchFromCTSentry
  \/ FetchFails
  \/ RejectEmptyDomain
  \/ MainRender
  \/ MainRenderError
  \/ CrtshFilter
  \/ CrtshGroup
  \/ CrtshAggregate
  \/ CrtshRender
  \/ CtsProcess
  \/ CtsFilter
  \/ CtsRender
  \/ RenderError

\* the positions of a handler
Positions ==
  {"start", "fetched", "failed", "filtered", "grouped", "aggregated", "threw", "done"}

\* the handler is at a statement of its own: it has not returned, and it is
\* not at the awaited fetch (with an empty domain there is no fetch)
Running ==
  /\ impl \in Handlers
  /\ \/ pc \notin {"start", "done"}
     \/ pc = "start" /\ domain = ""

\* the handler executes the statement it is at
Advance == Running /\ pc' \in Positions /\ pc' # pc

\* a handler that is at a statement of its own executes it; nothing is
\* assumed about the fetch
SpecHandler == InitHandler /\ [][NextHandler]_vars /\ WF_pc(Advance)

(***************************************************************************)
(* Vocabulary of the properties.                                           *)
(***************************************************************************)
\* the group builder of the serial-number pipeline has returned
GroupsBuilt == impl \in {"go", "crtsh"} /\ pc \in {"grouped", "aggregated", "done"}

\* the issuer aggregator of the serial-number pipeline has returned
IssuersBuilt == impl \in {"go", "crtsh"} /\ pc \in {"aggregated", "done"}

\* the aggregator of any pipeline has returned (and no date filter ran since)
Aggregated ==
  \/ IssuersBuilt
  \/ impl = "ctsentry" /\ pc = "aggregated"

\* the date filter has just been applied
Filtered == pc = "filtered"

Unlabelled(entry) == [entry EXCEPT !.entry_type = ""]

\* the certificate groups of all issuer groups, in order
RECURSIVE AllCertificates(_)
AllCertificates(list) ==
  IF list = <<>> THEN <<>>
  ELSE Head(list).certificates \o AllCertificates(Tail(list))

SerialNumbers(list) == {list[i].serial_number : i \in 1..Len(list)}

(***************************************************************************)
(* C1                                                                      *)
(***************************************************************************)
\* C1: the group builder returns exactly one group per distinct serial number
\* of its input: as many groups as distinct serial numbers, and no two groups
\* with the same serial number.
C1_OneGroupPerSerial ==
  GroupsBuilt =>
    /\ Len(groups) = Cardinality(SerialNumbers(certs))
    /\ \A i, j \in 1..Len(groups) :
         groups[i].serialNumber = groups[j].serialNumber => i = j

\* three records over two serial numbers were grouped into two groups
C1_Witness ==
  /\ GroupsBuilt
  /\ pc = "grouped"
  /\ Len(certs) = 3
  /\ Cardinality(SerialNumbers(certs)) = 2
  /\ Len(groups) = 2

(***************************************************************************)
(* C2                                                                      *)
(***************************************************************************)
\* C2: the group builder partitions its input: every group is non-empty, the
\* members of a group are exactly the input records carrying the group's
\* serial number (each as often as it occurs in the input), and the member
\* counts sum to the number of input records.
C2_Partition ==
  GroupsBuilt =>
    /\ \A i \in 1..Len(groups) :
         /\ Len(groups[i].entries) >= 1
         /\ \A r \in Records :
              Cardinality({k \in 1..Len(groups[i].entries) :
                             Unlabelled(groups[i].entries[k]) = r})
                = Cardinality({k \in 1..Len(certs) :
                                 /\ certs[k] = r
                                 /\ certs[k].serial_number = groups[i].serialNumber})
    /\ \A k \in 1..Len(certs) :
         \E i \in 1..Len(groups) : groups[i].serialNumber = certs[k].serial_number
    /\ SumSeq([i \in 1..Len(groups) |-> Len(groups[i].entries)]) = Len(certs)

\* a two-member group and a one-member group were built by the Go code from
\* records that alternate between the serial numbers
C2_Witness ==
  /\ GroupsBuilt
  /\ impl = "go"
  /\ Len(certs) = 3
  /\ certs[1].serial_number = certs[3].serial_number
  /\ certs[1].serial_number # certs[2].serial_number
  /\ \E i \in 1..Len(groups) : Len(groups[i].entries) = 2

(***************************************************************************)
(* C3                                                                      *)
(***************************************************************************)
\* C3: after labelling, a one-member group is labelled Leaf Certificate; in a
\* group of two or more members exactly one member is labelled
\* Precertificate, it has the minimum id of the group, and every other member
\* is labelled Leaf Certificate.
C3_Labels ==
  GroupsBuilt =>
    \A i \in 1..Len(groups) :
      LET entries == groups[i].entries
          pre == {k \in 1..Len(entries) : entries[k].entry_type = "Precertificate"}
      IN /\ Len(entries) = 1 => entries[1].entry_type = "Leaf Certificate"
         /\ Len(entries) >= 2 =>
              /\ Cardinality(pre) = 1
              /\ \A k \in pre : \A m \in 1..Len(entries) : entries[k].id <= entries[m].id
              /\ \A k \in 1..Len(entries) :
                   k \notin pre => entries[k].entry_type = "Leaf Certificate"

\* a pair fetched leaf first (token 9 before token 5) was labelled, next to a
\* group of one member
C3_Witness ==
  /\ GroupsBuilt
  /\ Len(certs) = 3
  /\ certs[1].serial_number = certs[2].serial_number
  /\ certs[1].id = 9 /\ certs[2].id = 5
  /\ \E i \in 1..Len(groups) :
       /\ Len(groups[i].entries) = 2
       /\ groups[i].entries[1].id = 5
       /\ groups[i].entries[1].entry_type = "Precertificate"
  /\ \E i \in 1..Len(groups) : Len(groups[i].entries) = 1

(***************************************************************************)
(* C4, C5                                                                  *)
(***************************************************************************)
\* the cutoff parameter parses as a date in the code that serves the request
CutoffParses ==
  IF impl = "go" THEN ~timeParse("date", notBefore).err ELSE ~NewDate(notBefore).nan

\* a validity-start string parses as a date in the code that serves the request
StartParses(nb) ==
  IF impl = "go" THEN ~timeParse("datetime", nb).err ELSE ~NewDate(nb).nan

\* the elements handed to the date filter, and the elements it retained
FilterInput ==
  IF impl = "ctsentry" THEN Range(AllCertificates(processCTSentryResponse(response)))
  ELSE Range(upstream)
FilterOutput ==
  IF impl = "ctsentry" THEN Range(AllCertificates(issuers)) ELSE Range(certs)
ValidityStart(x) == IF impl = "ctsentry" THEN x.notBefore ELSE x.not_before

\* C4: with a cutoff that parses, an element whose validity-start parses is
\* retained by the date filter if and only if its validity-start instant is
\* not earlier than the cutoff instant (inclusive boundary).
C4_InclusiveBoundary ==
  (Filtered /\ CutoffParses) =>
    \A x \in FilterInput :
      StartParses(ValidityStart(x)) =>
        (x \in FilterOutput <=> Instant(ValidityStart(x)) >= Instant(notBefore))

\* cutoff day 2: a record that starts on day 2 at 00:00:00 was retained and
\* a record that starts on day 1 was removed
C4_Witness ==
  /\ Filtered
  /\ impl \in {"go", "crtsh"}
  /\ notBefore = DateOnly(2)
  /\ \E x \in Range(upstream) : x.not_before = DateTime(2, 0) /\ x \in Range(certs)
  /\ \E x \in Range(upstream) : x.not_before = DateTime(1, 1) /\ x \notin Range(certs)

\* C5: for every cutoff, the date filter retains every element whose
\* validity-start does not parse (absent and empty ones included), in the
\* flat-record filter and in the grouped-structure filter alike.
C5_UnparseableRetained ==
  Filtered =>
    \A x \in FilterInput : ~StartParses(ValidityStart(x)) => x \in FilterOutput

(***************************************************************************)
(* C6                                                                      *)
(***************************************************************************)
\* C6: the issuer aggregator of the serial-number pipeline neither creates
\* nor drops certificate groups: the certificate lists of the returned
\* IssuerGroups hold exactly the input groups, each once.
C6_NoGroupCreatedOrDropped ==
  IssuersBuilt =>
    /\ Range(AllCertificates(issuers)) = Range(groups)
    /\ Len(AllCertificates(issuers)) = Len(groups)
    /\ SumSeq([i \in 1..Len(issuers) |-> Len(issuers[i].certificates)]) = Len(groups)

\* three groups were aggregated under two issuers
C6_Witness ==
  /\ IssuersBuilt
  /\ Len(groups) = 3
  /\ Len(issuers) = 2

(***************************************************************************)
(* C7                                                                      *)
(***************************************************************************)
\* the issuer identity of a certificate group: the issuer string of the
\* serial-number source, the structured issuer record of the pre-grouped one
IssuerIdentity(group) ==
  IF impl = "ctsentry" THEN group.primaryCert.cert[1].issuer ELSE group.issuerName

\* C7: the aggregator groups by exact issuer identity: two certificate groups
\* are in the same IssuerGroup if and only if their issuer identities are
\* equal, and there are as many IssuerGroups as distinct issuer identities.
C7_GroupedByIssuerIdentity ==
  Aggregated =>
    /\ \A i, j \in 1..Len(issuers) :
         \A a \in Range(issuers[i].certificates) :
           \A b \in Range(issuers[j].certificates) :
             (i = j) <=> (IssuerIdentity(a) = IssuerIdentity(b))
    /\ Len(issuers) =
         Cardinality({IssuerIdentity(g) : g \in Range(AllCertificates(issuers))})

(***************************************************************************)
(* C8                                                                      *)
(***************************************************************************)
\* the validity-end instant the code parsed for a certificate group
ValidityEnd(group) ==
  IF impl = "ctsentry" THEN group.notAfterDate ELSE group.notAfterTime

\* the instants an unparseable validity-end may be counted as
Placements == (0 - 1)..(Instant(DateTime(4, 1)) + 1)

\* C8: in every IssuerGroup the certificate groups are non-increasing by
\* validity-end instant from each position to the next, also when some
\* validity-end did not parse (such a group counts as one fixed instant,
\* whichever makes the list ordered).
C8_NonIncreasingValidityEnd ==
  Aggregated =>
    \A k \in 1..Len(issuers) :
      LET list == issuers[k].certificates
          at(i, z) == IF ValidityEnd(list[i]).nan THEN z ELSE ValidityEnd(list[i]).v
      IN \E z \in Placements :
           \A i \in 1..(Len(list) - 1) : at(i, z) >= at(i + 1, z)

(***************************************************************************)
(* C9                                                                      *)
(***************************************************************************)
\* C9: the returned IssuerGroups are non-decreasing by display name under
\* locale-aware string comparison.
C9_LocaleOrder ==
  Aggregated =>
    \A i \in 1..(Len(issuers) - 1) :
      localeCompare(issuers[i].displayName, issuers[i + 1].displayName) <= 0

(***************************************************************************)
(* C10                                                                     *)
(***************************************************************************)
\* C10: the output of group building followed by issuer aggregation is the
\* same in every run on the same records, whatever order the maps are
\* iterated in: the output of this run is the only one the Go code can give.
C10_Deterministic ==
  (impl = "go" /\ pc = "done") =>
    \A g \in GroupCertificates(certs) : \A out \in GroupByIssuer(g) : out = issuers

(***************************************************************************)
(* C11 .. C14                                                              *)
(***************************************************************************)
\* the request called the step
Called(step) == \E i \in 1..Len(steps) : steps[i] = step

\* the renderer has been called
Rendered == rendered # <<>>

\* the renderer call of a handler of the Worker (not of main.go)
WorkerPage == impl \in {"crtsh", "ctsentry"} /\ Rendered

\* the IssuerGroups the aggregator of the pre-grouped source built from the
\* response, before any date filter
Processed == processCTSentryResponse(response)

\* the issuers of Processed all of whose certificates start before the cutoff
Emptied ==
  {i \in 1..Len(Processed) :
     \A k \in 1..Len(Processed[i].certificates) :
       ~JsGe(NewDate(Processed[i].certificates[k].notBefore), NewDate(notBefore))}

\* C11: once the date filter has been applied to the IssuerGroups, every
\* IssuerGroup the handler holds, and every one it hands the renderer, has at
\* least one certificate group, and the number of IssuerGroups handed to the
\* renderer is the number built minus the number whose certificates were all
\* filtered away.
C11_NoEmptyIssuerAfterFilter ==
  (impl = "ctsentry" /\ Called("filter")) =>
    /\ \A i \in 1..Len(issuers) : issuers[i].certificates # <<>>
    /\ Rendered =>
         /\ \A i \in 1..Len(rendered[1].issuers) :
              rendered[1].issuers[i].certificates # <<>>
         /\ Len(rendered[1].issuers) = Len(Processed) - Cardinality(Emptied)

\* a filtered search that lost one issuer entirely and kept another
C11_Witness ==
  /\ impl = "ctsentry"
  /\ Called("filter")
  /\ Rendered
  /\ Emptied # {}
  /\ rendered[1].issuers # <<>>

\* C12: on a successful search, the total handed to the renderer is the sum
\* of the lengths of the certificate lists of the IssuerGroups handed to it in
\* the same call.
C12_TotalIsPostFilterCount ==
  (WorkerPage /\ rendered[1].errors = <<>>) =>
    rendered[1].totalCerts = Len(AllCertificates(rendered[1].issuers))

\* a search whose filter removed some certificates and kept several, under
\* more than one issuer
C12_Witness ==
  /\ WorkerPage
  /\ rendered[1].errors = <<>>
  /\ Called("filter")
  /\ Len(rendered[1].issuers) > 1
  /\ rendered[1].totalCerts > 1
  /\ \/ impl = "ctsentry" /\ rendered[1].totalCerts < Len(AllCertificates(Processed))
     \/ impl = "crtsh" /\ Len(certs) < Len(upstream)

\* C13: a request whose fetch failed makes one more call, the renderer's,
\* with no IssuerGroups (main.go: no certificates), a total of 0 and exactly
\* one error message; it has called no filter, group builder or aggregator, and
\* holds no result of one.
C13_FetchFailureAbortsPipeline ==
  [][pc = "failed" =>
       /\ pc' = "done"
       /\ steps' = <<"fetch", "render">>
       /\ Len(rendered') = 1
       /\ Len(rendered'[1].errors) = 1
       /\ IF impl = "main"
          THEN rendered'[1].certificates = <<>>
          ELSE rendered'[1].issuers = <<>> /\ rendered'[1].totalCerts = 0
       /\ certs' = <<>> /\ groups' = <<>> /\ returned' = <<>> /\ issuers' = <<>>
    ]_vars

\* a failed fetch has been rendered
C13_Witness ==
  /\ pc = "done"
  /\ impl \in {"main", "crtsh", "ctsentry"}
  /\ steps = <<"fetch", "render">>
  /\ rendered[1].errors = <<"fetch failed">>

\* C14: the date filter applied once more, with the same cutoff, to what it
\* returned returns the same collection: same elements, same order.
C14_FilterIdempotent ==
  Filtered =>
    /\ impl = "go" => FilterByNotBefore(certs, notBefore) = certs
    /\ impl = "crtsh" => filterByNotBefore(certs, notBefore) = certs
    /\ impl = "ctsentry" =>
         /\ FilterEachIssuer(returned, notBefore) = returned
         /\ RemoveEmptyIssuers(FilterEachIssuer(issuers, notBefore)) = issuers

\* the filter removed an element that was followed by another it removed, and
\* kept one
C14_Witness ==
  /\ Filtered
  /\ impl \in {"go", "crtsh"}
  /\ certs # <<>>
  /\ Len(certs) + 2 = Len(upstream)

(***************************************************************************)
(* C15, C18                                                                *)
(***************************************************************************)
\* every fingerprint of the response has at least one entry
EveryFingerprintHasEntries ==
  \A i \in 1..Len(response.results) : response.results[i].entries # <<>>

\* C15: for a response whose records may omit optional fields,
\* processCTSentryResponse does not throw, and the certificate groups of the
\* IssuerGroups it returns correspond one-to-one with the fingerprints of the
\* response: as many groups as fingerprints, and for each fingerprint exactly one
\* group, with that fingerprint as key and the fingerprint's entry list as
\* members.
C15_OneGroupPerFingerprint ==
  (impl = "ctsentry" /\ Called("process") /\ EveryFingerprintHasEntries) =>
    /\ pc # "threw"
    /\ LET built == AllCertificates(Processed)
       IN /\ Len(built) = Len(response.results)
          /\ \A i \in 1..Len(response.results) :
               Cardinality({k \in 1..Len(built) :
                              /\ built[k].qid = response.results[i].qid
                              /\ built[k].allEntries = response.results[i].entries}) = 1

\* the renderer call for the same response with its truncated flag cleared
UntruncatedPage == handleSearch([response EXCEPT !.truncated = FALSE], notBefore)

Stripped(s) ==
  LET inked == {i \in 1..Len(s) : s[i] # " "}
  IN IF inked = {} THEN <<>>
     ELSE SubSeq(s, CHOOSE i \in inked : \A j \in inked : i <= j,
                    CHOOSE i \in inked : \A j \in inked : i >= j)

\* the value of the last of the components that starts with the prefix, <<>>
\* when none does
LastValue(parts, prefix) ==
  LET at == {i \in 1..Len(parts) :
               Len(parts[i]) >= Len(prefix) /\ SubSeq(parts[i], 1, Len(prefix)) = prefix}
      last == CHOOSE i \in at : \A j \in at : i >= j
  IN IF at = {} THEN <<>> ELSE SubSeq(parts[last], Len(prefix) + 1, Len(parts[last]))

\* "{org} ({cn})", the one that is not empty, or the fallback
ThreeWay(org, cn, fallback) ==
  CASE org # <<>> /\ cn # <<>> -> org \o <<" ", "(">> \o cn \o <<")">>
    [] org # <<>> /\ cn = <<>> -> org
    [] org = <<>> /\ cn # <<>> -> cn
    [] OTHER -> fallback

\* the components of the string argument, as split on ", "
SplitArgument == Split(argument.name, <<",", " ">>)

\* C16 as stated: with the components taken as split, the result is
\* "{O} ({CN})" when a component starts with O= and one with CN=, both with
\* non-empty values, the organization alone or the common name alone when only
\* that one is there, and the input unchanged when neither is.
C16_DisplayNameOfComponents ==
  called = "extractIssuerDisplayName" =>
    result = ThreeWay(LastValue(SplitArgument, <<"O", "=">>),
                      LastValue(SplitArgument, <<"C", "N", "=">>), argument.name)

\* C16, amended: each component is first stripped of surrounding spaces; the
\* organization is the value of the last component starting with O=, the
\* common name that of the last starting with CN=, and one with an empty value
\* counts as absent. The result is "{O} ({CN})" when both are there, the one
\* that is there alone, and the input unchanged otherwise.
C16_DisplayNameOfTrimmedComponents ==
  called = "extractIssuerDisplayName" =>
    LET parts == [i \in 1..Len(SplitArgument) |-> Stripped(SplitArgument[i])]
    IN result = ThreeWay(LastValue(parts, <<"O", "=">>),
                         LastValue(parts, <<"C", "N", "=">>), argument.name)

\* a component with a leading space gave the organization of "x (R)"
C16_Witness ==
  /\ called = "extractIssuerDisplayName"
  /\ \E i \in 1..Len(SplitArgument) : SplitArgument[i] = <<" ", "O", "=", "x">>
  /\ result = <<"x", " ", "(", "R", ")">>

\* C17: for a structured issuer, with an empty value counting as absent, the
\* result is "{first organization} ({common name})" when both are there, the
\* one that is there alone, otherwise the full DN when there is one, and
\* otherwise "Unknown Issuer"; the call returns a non-empty string.
C17_StructuredDisplayName ==
  called = "extractCTSentryIssuerDisplayName" =>
    LET issuer == argument.record
        first == IF issuer.organization = <<>> THEN <<>> ELSE issuer.organization[1]
    IN /\ result = ThreeWay(first, issuer.common_name,
                      IF issuer.dn # <<>> THEN issuer.dn
                      ELSE <<"U", "n", "k", "n", "o", "w", "n", " ",
                             "I", "s", "s", "u", "e", "r">>)
       /\ result # <<>>

\* an issuer with a full DN, two organizations and a common name gave "B (R)"
C17_Witness ==
  /\ called = "extractCTSentryIssuerDisplayName"
  /\ argument.record.dn # <<>>
  /\ Len(argument.record.organization) = 2
  /\ result = <<"B", " ", "(", "R", ")">>

(***************************************************************************)
(* C19, C20                                                                *)
(***************************************************************************)
\* C19: a request with a domain that has been answered has called the fetch
\* exactly once, whether the fetch failed or not and whatever the other
\* requests did; a request that is waiting has called it once.  Requests for
\* the same domain each make their own call.
C19_OneFetchPerRequest ==
  \A r \in 1..MaxRequests :
    /\ (requests[r].domain # "" /\ requests[r].pc \in {"waiting", "done"}) =>
         requests[r].fetches = 1
    /\ requests[r].fetches <= 1

\* two requests for the same domain have both been answered, one after a
\* failed fetch, and two fetches were made
C19_Witness ==
  /\ requests[1].pc = "done" /\ requests[2].pc = "done"
  /\ requests[1].domain # "" /\ requests[2].domain = requests[1].domain
  /\ requests[1].outcome = "failed" /\ requests[2].outcome = "fetched"
  /\ requests[1].fetches + requests[2].fetches = 2

\* C20: whatever the other requests did and in whatever order, the renderer
\* call of a request of the Worker is the one handleSearch makes for that
\* request's response and cutoff alone.
C20_IndependentOfOtherRequests ==
  \A r \in 1..MaxRequests :
    (server = "ctsentry" /\ requests[r].pc = "done" /\ requests[r].outcome = "fetched") =>
      requests[r].rendered = <<handleSearch(requests[r].response, requests[r].notBefore)>>

\* two requests of the Worker got the same response; one filtered
\* certificates away, the other rendered them all, and the objects the two
\* were given for the same issuer differ
C20_Witness ==
  /\ server = "ctsentry"
  /\ requests[1].pc = "done" /\ requests[2].pc = "done"
  /\ requests[1].outcome = "fetched" /\ requests[2].outcome = "fetched"
  /\ requests[1].response = requests[2].response
  /\ requests[1].notBefore # EmptyString /\ requests[2].notBefore = EmptyString
  /\ requests[1].rendered[1].errors = <<>>
  /\ requests[1].rendered[1].totalCerts < requests[2].rendered[1].totalCerts
  /\ \E i \in 1..Len(heap) : \E j \in 1..Len(heap) :
       /\ heap[i].issuerDN = heap[j].issuerDN
       /\ heap[i].certificates # heap[j].certificates

(***************************************************************************)
(* C21, C22                                                                *)
(***************************************************************************)
\* processCTSentryResponse has returned its IssuerGroups to the handler
ProcessReturned == impl = "ctsentry" /\ Called("process") /\ ~ProcessThrows(response)

\* C21: the IssuerGroup objects the aggregator returned stay as it returned
\* them through every later step of the request: same certificate lists, same
\* attributes.
C21_NotMutatedAfterConstruction ==
  ProcessReturned => returned = Processed

\* the first of the records handed to the group builder that carries the key
Representative(serial) ==
  certs[CHOOSE i \in 1..Len(certs) :
          /\ certs[i].serial_number = serial
          /\ \A j \in 1..(i - 1) : certs[j].serial_number # serial]

\* the entry list the response gives a fingerprint
UpstreamEntries(qid) ==
  LET at == CHOOSE i \in 1..Len(response.results) : response.results[i].qid = qid
  IN response.results[at].entries

WithToken(list, id) ==
  LET has(entry) == entry.id = id
  IN SelectSeq(list, has)

\* the records of a serial number, in fetch order
Fetched(serial) ==
  LET has(cert) == cert.serial_number = serial
  IN SelectSeq(certs, has)

\* C23: after labelEntries ran on a group of two or more members, the members
\* are in ascending token order, members with equal tokens are in their fetch
\* order, and the first of them is the one labelled Precertificate.
C23_StableLabelOrder ==
  GroupsBuilt =>
    \A k \in 1..Len(groups) :
      LET entries == groups[k].entries
          unlabelled == [i \in 1..Len(entries) |-> Unlabelled(entries[i])]
      IN Len(entries) >= 2 =>
           /\ \A i \in 1..(Len(entries) - 1) : entries[i].id <= entries[i + 1].id
           /\ \A i \in 1..Len(entries) :
                WithToken(unlabelled, entries[i].id) =
                  WithToken(Fetched(groups[k].serialNumber), entries[i].id)
           /\ entries[1].entry_type = "Precertificate"

\* the validity-end string of a certificate group parses as a date-time in the
\* code that serves the request
EndParses(group) ==
  IF impl = "go" THEN ~timeParse("datetime", group.notAfter).err
  ELSE ~NewDate(group.notAfter).nan

\* the position of a certificate group in the collection handed to the
\* aggregator
PositionIn(list, group) == CHOOSE i \in 1..Len(list) : list[i] = group

\* C24: within an IssuerGroup two certificate groups with equal validity-end
\* instants are in the relative order they had in the collection handed to
\* the aggregator.
C24_TiesKeepInputOrder ==
  IssuersBuilt =>
    \A k \in 1..Len(issuers) :
      LET list == issuers[k].certificates
      IN \A i, j \in 1..Len(list) :
           (/\ i < j
            /\ EndParses(list[i]) /\ EndParses(list[j])
            /\ ValidityEnd(list[i]) = ValidityEnd(list[j]))
             => PositionIn(groups, list[i]) < PositionIn(groups, list[j])

(***************************************************************************)
(* C25 .. C27                                                              *)
(***************************************************************************)
\* the date filter applied to certificate groups: a group stays unless its
\* validity-start is earlier than the cutoff
RemoveGroupsBefore(groupList, cutoff) ==
  LET keep(group) == Instant(group.notBefore) >= Instant(cutoff)
  IN SelectSeq(groupList, keep)

\* the serial-number pipeline ran with a cutoff, and the cutoff and every
\* fetched validity-start parse
CutoffApplied ==
  /\ impl \in {"go", "crtsh"}
  /\ Called("filter") /\ Called("aggregate")
  /\ CutoffParses
  /\ \A i \in 1..Len(upstream) : StartParses(upstream[i].not_before)

\* C25: the result of the serial-number pipeline with a cutoff is the result
\* of grouping all fetched records, removing the groups whose validity-start
\* is earlier than the cutoff, and aggregating what is left.
C25_GroupThenFilterThenAggregate ==
  CutoffApplied =>
    IF impl = "crtsh"
    THEN issuers = groupByIssuer(RemoveGroupsBefore(groupCertificates(upstream), notBefore))
    ELSE \E g \in GroupCertificates(upstream) :
           issuers \in GroupByIssuer(RemoveGroupsBefore(g, notBefore))

\* C26: with a cutoff that does not parse as a date, the date filter returns
\* every element it was given, in the order it was given them, and the
\* request is answered without an error message.
C26_UnparseableCutoffKeepsAll ==
  (Called("filter") /\ ~CutoffParses) =>
    /\ IF impl = "ctsentry"
       THEN /\ AllCertificates(issuers) = AllCertificates(Processed)
            /\ Len(issuers) = Len(Processed)
       ELSE certs = upstream
    /\ Rendered => rendered[1].errors = <<>>

\* C27: the display name of every IssuerGroup processCTSentryResponse returns
\* is the display name extracted from the issuer of each of its certificate
\* groups.
C27_DisplayNameOfEveryMember ==
  (impl = "ctsentry" /\ pc = "aggregated") =>
    \A i \in 1..Len(returned) : \A k \in 1..Len(returned[i].certificates) :
      /\ returned[i].displayName = returned[i].certificates[k].issuerDisplayName
      /\ returned[i].displayName =
           extractCTSentryIssuerDisplayName(
             returned[i].certificates[k].primaryCert.cert[1].issuer)

(***************************************************************************)
(* C28                                                                     *)
(***************************************************************************)
\* the position in Processed of the IssuerGroup with the issuer key
IssuerPosition(issuer) ==
  CHOOSE i \in 1..Len(Processed) : Processed[i].issuerDN = issuer.issuerDN

\* the position of the certificate group of a fingerprint in a list
CertPosition(list, certGroup) ==
  CHOOSE k \in 1..Len(list) : list[k].qid = certGroup.qid

\* a collection is non-decreasing by display name
SortedByDisplayName(list) ==
  \A i, j \in 1..Len(list) :
    i < j => localeCompare(list[i].displayName, list[j].displayName) <= 0

\* a certificate list is non-increasing by validity-end (an unparseable
\* validity-end counts as one fixed instant)
SortedByValidityEnd(list) ==
  LET at(i, z) == IF list[i].notAfterDate.nan THEN z ELSE list[i].notAfterDate.v
  IN \E z \in Placements : \A i \in 1..(Len(list) - 1) : at(i, z) >= at(i + 1, z)

\* the date filter ran on the IssuerGroups and the renderer was handed them
FilteredPage == ProcessReturned /\ Called("filter") /\ Rendered

FetchSettled == impl \in Handlers /\ Called("fetch")

\* the handler has returned
Returned == pc = "done"

\* C29: once the fetch of a request has returned or failed, the handler gets
\* to its return with exactly one renderer call made; at no time has a request
\* two responses or has its handler returned without one; and every step
\* after the fetch is a statement of the handler itself (never a second
\* fetch), while the only step before it is the fetch; a failed fetch and an
\* exception always have a statement of the handler to go on with.
C29_OneResponseAfterFetch ==
  /\ FetchSettled ~> (Returned /\ Len(rendered) = 1)
  /\ [](Len(rendered) <= 1)
  /\ [](Returned => Len(rendered) = 1)
  /\ [][Running => HandlerStep /\ Len(steps') = Len(steps) + 1]_vars
  /\ [][~Running => ~HandlerStep]_vars
  /\ []((Running /\ pc \in {"start", "failed", "threw"}) => ENABLED HandlerStep)

\* a request that went through fetch, processing and the date filter, and
\* one whose processing threw, each answered by one renderer call
C29_Witness ==
  /\ FetchSettled
  /\ Returned
  /\ Len(rendered) = 1
  /\ \/ Called("filter") /\ impl = "ctsentry"
     \/ Called("process") /\ ProcessThrows(response)

====
